---- MODULE Spec2Model ----
(***************************************************************************)
(* Model of the Observation service of src/app.py: one SQLite table of     *)
(* Observation rows and the six Flask handlers over it.  Text (JSON        *)
(* strings, query parameters, serialized dates) is a sequence of           *)
(* one-character strings, so that parsing and formatting are computed.     *)
(***************************************************************************)
EXTENDS Integers, Sequences, FiniteSets

(***************************************************************************)
(* Bounds of the model.                                                    *)
(***************************************************************************)
\* number of create requests that reach the INSERT
MaxCreates == 2

(***************************************************************************)
(* JSON values and text.                                                   *)
(***************************************************************************)
JNull == [k |-> "null"]
JStr(s) == [k |-> "str", s |-> s]
JNum(n) == [k |-> "num", n |-> n]

Digits == <<"0", "1", "2", "3", "4", "5", "6", "7", "8", "9">>

IsDigit(c) == \E i \in 1..10 : Digits[i] = c

DigitVal(c) == (CHOOSE i \in 1..10 : Digits[i] = c) - 1

AllDigits(tok) == \A i \in 1..Len(tok) : IsDigit(tok[i])

\* int() of a non-empty token of decimal digits
RECURSIVE TokVal(_)
TokVal(tok) ==
    IF Len(tok) = 0 THEN 0
    ELSE 10 * TokVal(SubSeq(tok, 1, Len(tok) - 1)) + DigitVal(tok[Len(tok)])

\* '%0<width>d' % n
RECURSIVE Pad(_, _)
Pad(n, width) ==
    IF width = 0 THEN <<>>
    ELSE Pad(n \div 10, width - 1) \o <<Digits[(n % 10) + 1]>>

\* the tokens of a text between occurrences of the separator
RECURSIVE Split(_, _)
Split(text, sep) ==
    IF \A i \in 1..Len(text) : text[i] # sep THEN <<text>>
    ELSE LET p == CHOOSE i \in 1..Len(text) :
                     text[i] = sep /\ \A j \in 1..(i - 1) : text[j] # sep
         IN <<SubSeq(text, 1, p - 1)>> \o Split(SubSeq(text, p + 1, Len(text)), sep)

(***************************************************************************)
(* datetime.datetime.strptime(text, '%Y-%m-%d').date() and                 *)
(* datetime.datetime.strptime(text, '%H:%M:%S').time().  The directives    *)
(* are the regular expressions of the standard library: %Y is four digits, *)
(* the others take one or two digits, so unpadded text parses.  The result *)
(* is [ok |-> TRUE, v |-> value] or [ok |-> FALSE, exc |-> exception].      *)
(***************************************************************************)
\* \d or <lead>\d with the value in lo..hi: the one- or two-digit directives
OneOrTwoDigits(tok, lo, hi) ==
    /\ Len(tok) \in {1, 2}
    /\ AllDigits(tok)
    /\ TokVal(tok) >= lo
    /\ TokVal(tok) <= hi

\* %d also accepts a space followed by one digit 1-9
DayToken(tok) ==
    \/ OneOrTwoDigits(tok, 1, 31)
    \/ Len(tok) = 2 /\ tok[1] = " " /\ IsDigit(tok[2]) /\ DigitVal(tok[2]) >= 1

DayVal(tok) == IF tok[1] = " " THEN DigitVal(tok[2]) ELSE TokVal(tok)

IsLeap(y) == (y % 4 = 0) /\ ((y % 100 # 0) \/ (y % 400 = 0))

DaysInMonth(y, m) ==
    IF m = 2 THEN (IF IsLeap(y) THEN 29 ELSE 28)
    ELSE IF m \in {4, 6, 9, 11} THEN 30 ELSE 31

ParseDate(jv) ==
    IF jv.k # "str" THEN [ok |-> FALSE, exc |-> "TypeError"]
    ELSE LET toks == Split(jv.s, "-") IN
         IF /\ Len(toks) = 3
            /\ Len(toks[1]) = 4 /\ AllDigits(toks[1])
            /\ OneOrTwoDigits(toks[2], 1, 12)
            /\ DayToken(toks[3])
            /\ TokVal(toks[1]) >= 1
            /\ DayVal(toks[3]) <= DaysInMonth(TokVal(toks[1]), TokVal(toks[2]))
         THEN [ok |-> TRUE,
               v |-> [k |-> "date", y |-> TokVal(toks[1]), m |-> TokVal(toks[2]),
                      d |-> DayVal(toks[3])]]
         ELSE [ok |-> FALSE, exc |-> "ValueError"]

ParseTime(jv) ==
    IF jv.k # "str" THEN [ok |-> FALSE, exc |-> "TypeError"]
    ELSE LET toks == Split(jv.s, ":") IN
         IF /\ Len(toks) = 3
            /\ OneOrTwoDigits(toks[1], 0, 23)
            /\ OneOrTwoDigits(toks[2], 0, 59)
            /\ OneOrTwoDigits(toks[3], 0, 61)
            /\ TokVal(toks[3]) <= 59
         THEN [ok |-> TRUE,
               v |-> [k |-> "time", h |-> TokVal(toks[1]), mi |-> TokVal(toks[2]),
                      s |-> TokVal(toks[3])]]
         ELSE [ok |-> FALSE, exc |-> "ValueError"]

(***************************************************************************)
(* Serialization by ObservationSchema: a date as YYYY-MM-DD, a time as     *)
(* HH:MM:SS (isoformat), every other column as stored.                     *)
(***************************************************************************)
FormatDate(dv) == JStr(Pad(dv.y, 4) \o <<"-">> \o Pad(dv.m, 2) \o <<"-">> \o Pad(dv.d, 2))

FormatTime(tv) == JStr(Pad(tv.h, 2) \o <<":">> \o Pad(tv.mi, 2) \o <<":">> \o Pad(tv.s, 2))

(***************************************************************************)
(* The Observation table (class Observation) and the request bodies.       *)
(***************************************************************************)
RequiredFields == {"Date", "Time"}

OptionalFields ==
    {"TimeZoneOffset", "Coordinates", "WaterTemp", "AirTemp", "Humidity",
     "WindSpeed", "WindDirection", "Precipitation", "Haze", "Becquerel"}

Columns == {"ObservationID"} \cup RequiredFields \cup OptionalFields

\* text of the JSON strings sent as Date and Time: padded, unpadded, unparseable
DateInputs ==
    {JNull,
     JStr(<<"2", "0", "2", "4", "-", "0", "1", "-", "0", "5">>),
     JStr(<<"2", "0", "2", "4", "-", "2", "-", "9">>),
     JStr(<<"2", "0", "2", "4", "-", "1", "3", "-", "0", "1">>)}

TimeInputs ==
    {JNull,
     JStr(<<"0", "9", ":", "0", "5", ":", "0", "3">>),
     JStr(<<"9", ":", "5", ":", "3">>),
     JStr(<<"2", "5", ":", "0", "0", ":", "0", "0">>)}

\* the keys a request body may carry, and the values sent under each
BodyKeys == {"Date", "Time", "WaterTemp", "ObservationID"}

InputsOf(key) ==
    IF key = "Date" THEN DateInputs
    ELSE IF key = "Time" THEN TimeInputs
    ELSE IF key = "ObservationID" THEN {JNum(1)}
    ELSE {JNull, JNum(1)}

\* request.get_json(): a JSON object, as a function from its keys to values
Bodies ==
    UNION {{b \in [S -> UNION {InputsOf(key) : key \in S}] :
                \A key \in S : b[key] \in InputsOf(key)} : S \in SUBSET BodyKeys}

\* the ids a path or a query may name
RequestIds == 1..(MaxCreates + 1)

\* str(n) for 0 <= n
RECURSIVE IdText(_)
IdText(n) == IF n < 10 THEN <<Digits[n + 1]>> ELSE IdText(n \div 10) \o <<Digits[(n % 10) + 1]>>

\* request.args.get('ObservationID'): absent, the text of an id, or other text
QueryParams ==
    {JNull} \cup {JStr(IdText(n)) : n \in RequestIds}
    \cup {JStr(<<"1", ".", "0">>), JStr(<<"a", "b", "c">>)}

VARIABLES
    table,        \* the rows of the observation table, in rowid order
    origin,       \* per row of table: the ObservationID it was inserted with
    issued,       \* the ids assigned by successful creates, in order
    deleted,      \* the ids whose delete returned 200
    lastCreate,   \* the id and body of the latest successful create, until
                  \* an update or delete names that id
    req,          \* the request being answered
    resp          \* the response to it

vars == <<table, origin, issued, deleted, lastCreate, req, resp>>

(***************************************************************************)
(* Storage: the SQLite table behind Observation.query and db.session.      *)
(***************************************************************************)
RowId(row) == row["ObservationID"].n

\* Observation.query.filter_by(ObservationID=id).first(): the index of the
\* first row with that id, 0 when there is none
FindByID(t, id) ==
    IF \E i \in 1..Len(t) : RowId(t[i]) = id
    THEN CHOOSE i \in 1..Len(t) :
             RowId(t[i]) = id /\ \A j \in 1..(i - 1) : RowId(t[j]) # id
    ELSE 0

\* The id of an inserted row.  ObservationID is an INTEGER primary key of a
\* SQLite table declared without AUTOINCREMENT, so it is the rowid: one more
\* than the largest rowid in the table, 1 in an empty table.
NextRowid(t) ==
    IF Len(t) = 0 THEN 1
    ELSE (CHOOSE n \in {RowId(t[i]) : i \in 1..Len(t)} :
              \A i \in 1..Len(t) : RowId(t[i]) <= n) + 1

\* t without its i-th row
RemoveAt(t, i) == SubSeq(t, 1, i - 1) \o SubSeq(t, i + 1, Len(t))

\* as Persisted, but the session's object is written whether or not the
\* handler reached the commit
PersistedAlways(t, i, obj, committed) == [t EXCEPT ![i] = obj]

\* The table after a request that changed the session's object at index i to
\* obj: written by db.session.commit(), dropped with the session when the
\* handler leaves without committing.
Persisted(t, i, obj, committed) ==
    IF committed THEN [t EXCEPT ![i] = obj] ELSE t

\* The comparison ObservationID = :param of the query endpoint, whose
\* parameter is text: SQLite gives the text NUMERIC affinity, so the text of
\* an integer, or of a real with a zero fraction, compares as that integer;
\* other text, and NULL, match no row.  0 stands for no match (rowids are >= 1).
TextAsInteger(param) ==
    IF param.k # "str" THEN 0
    ELSE LET toks == Split(param.s, ".") IN
         IF Len(toks) = 1 /\ Len(toks[1]) > 0 /\ AllDigits(toks[1])
         THEN TokVal(toks[1])
         ELSE IF /\ Len(toks) = 2
                 /\ Len(toks[1]) > 0 /\ AllDigits(toks[1])
                 /\ Len(toks[2]) > 0 /\ AllDigits(toks[2])
                 /\ TokVal(toks[2]) = 0
         THEN TokVal(toks[1])
         ELSE 0

(***************************************************************************)
(* Responses.  kind is "record" (observation_schema.jsonify), "list",      *)
(* "message" (jsonify({"message": ...})) or "unhandled" (an exception left  *)
(* the handler and Flask answered 500 itself).                             *)
(***************************************************************************)
Serialize(row) ==
    [c \in Columns |->
        IF c = "Date" THEN FormatDate(row[c])
        ELSE IF c = "Time" THEN FormatTime(row[c])
        ELSE row[c]]

RecordResponse(status, row) ==
    [status |-> status, kind |-> "record", msg |-> "", key |-> "", id |-> RowId(row),
     body |-> Serialize(row), exc |-> ""]

MessageResponse(status, msg, key, id, exc) ==
    [status |-> status, kind |-> "message", msg |-> msg, key |-> key, id |-> id,
     body |-> JNull, exc |-> exc]

UnhandledResponse(exc) ==
    [status |-> 500, kind |-> "unhandled", msg |-> "", key |-> "", id |-> 0,
     body |-> JNull, exc |-> exc]

NotFound == MessageResponse(404, "Observation not found", "", 0, "")

(***************************************************************************)
(* The handlers, as functions of the table and the request.  Each yields   *)
(* the table it leaves and its response.                                   *)
(***************************************************************************)
\* as BodyGet, but a key whose value is null counts as absent
BodyGetOr(body, key, default) ==
    IF key \in DOMAIN body /\ body[key] # JNull THEN body[key] ELSE default

\* json_data.get(key, default)
BodyGet(body, key, default) ==
    IF key \in DOMAIN body THEN body[key] ELSE default

get_all_observations(t) ==
    [table |-> t,
     resp |-> [status |-> 200, kind |-> "list", msg |-> "", key |-> "", id |-> 0,
               body |-> [i \in 1..Len(t) |-> Serialize(t[i])], exc |-> ""]]

get_one_observation_route(t, id) ==
    LET i == FindByID(t, id) IN
    [table |-> t, resp |-> IF i # 0 THEN RecordResponse(200, t[i]) ELSE NotFound]

get_one_observation_query(t, param) ==
    LET i == FindByID(t, TextAsInteger(param)) IN
    [table |-> t, resp |-> IF i # 0 THEN RecordResponse(200, t[i]) ELSE NotFound]

\* Observation(Date=date, Time=time, <optional>=json_data.get(<optional>))
NewObservation(id, date, time, body) ==
    [c \in Columns |->
        IF c = "ObservationID" THEN JNum(id)
        ELSE IF c = "Date" THEN date
        ELSE IF c = "Time" THEN time
        ELSE BodyGet(body, c, JNull)]

\* the body of the try block once both keys were read: date and time are
\* the results of strptime
AddParsed(t, body, date, time, dbfail) ==
    IF ~date.ok
    THEN [table |-> t,
          resp |-> MessageResponse(500, "Error adding observation", "", 0, date.exc)]
    ELSE IF "Time" \notin DOMAIN body
    THEN [table |-> t, resp |-> MessageResponse(400, "Missing field", "Time", 0, "KeyError")]
    ELSE IF ~time.ok
    THEN [table |-> t,
          resp |-> MessageResponse(500, "Error adding observation", "", 0, time.exc)]
    ELSE IF dbfail
    THEN [table |-> t,
          resp |-> MessageResponse(500, "Error adding observation", "", 0, "StorageError")]
    ELSE [table |-> Append(t, NewObservation(NextRowid(t), date.v, time.v, body)),
          resp |-> RecordResponse(201, NewObservation(NextRowid(t), date.v, time.v, body))]

observation_add_json(t, body, dbfail) ==
    IF "Date" \notin DOMAIN body
    THEN [table |-> t, resp |-> MessageResponse(400, "Missing field", "Date", 0, "KeyError")]
    ELSE AddParsed(t, body, ParseDate(body["Date"]),
                   IF "Time" \in DOMAIN body THEN ParseTime(body["Time"])
                   ELSE [ok |-> FALSE, exc |-> "KeyError"],
                   dbfail)

\* as ModifiedColumns, but the primary key is assigned from the body too
ModifiedColumnsWithId == OptionalFields \cup {"ObservationID"}

\* the columns modify_observation assigns from json_data.get(column, current)
ModifiedColumns == OptionalFields

\* the assignments of modify_observation to the found row, up to the first
\* exception: date and time are the results of strptime for the keys present
ModifyParsed(t, i, body, date, time, dbfail) ==
    LET withDate == IF "Date" \in DOMAIN body /\ date.ok
                    THEN [t[i] EXCEPT !["Date"] = date.v]
                    ELSE t[i]
        withTime == IF "Time" \in DOMAIN body /\ time.ok
                    THEN [withDate EXCEPT !["Time"] = time.v]
                    ELSE withDate
        observation == [c \in Columns |->
                           IF c \in ModifiedColumns
                           THEN BodyGet(body, c, withTime[c])
                           ELSE withTime[c]]
    IN IF "Date" \in DOMAIN body /\ ~date.ok
       THEN [table |-> Persisted(t, i, t[i], FALSE), resp |-> UnhandledResponse(date.exc)]
       ELSE IF "Time" \in DOMAIN body /\ ~time.ok
       THEN [table |-> Persisted(t, i, withDate, FALSE),
             resp |-> UnhandledResponse(time.exc)]
       ELSE IF dbfail
       THEN [table |-> Persisted(t, i, observation, FALSE),
             resp |-> UnhandledResponse("StorageError")]
       ELSE [table |-> Persisted(t, i, observation, TRUE),
             resp |-> RecordResponse(200, observation)]

modify_observation(t, id, body, dbfail) ==
    IF FindByID(t, id) = 0 THEN [table |-> t, resp |-> NotFound]
    ELSE ModifyParsed(t, FindByID(t, id), body,
                      IF "Date" \in DOMAIN body THEN ParseDate(body["Date"])
                      ELSE [ok |-> TRUE],
                      IF "Time" \in DOMAIN body THEN ParseTime(body["Time"])
                      ELSE [ok |-> TRUE],
                      dbfail)

delete_observation(t, id, dbfail) ==
    LET i == FindByID(t, id) IN
    IF i = 0 THEN [table |-> t, resp |-> NotFound]
    ELSE IF dbfail THEN [table |-> t, resp |-> UnhandledResponse("StorageError")]
    ELSE [table |-> RemoveAt(t, i),
          resp |-> MessageResponse(200, "deleted successfully", "", id, "")]

(***************************************************************************)
(* The service: one action per endpoint, and the return of the response.   *)
(* Requests are answered one at a time.  dbfail says that the storage      *)
(* engine fails the request's db.session.commit(); it is drawn only for    *)
(* requests that reach the commit.  modify_observation reads the body only *)
(* once the row is found, so a request for an id not in the table carries  *)
(* the empty body.                                                         *)
(***************************************************************************)
Request(op, id, param, body, dbfail) ==
    [op |-> op, id |-> id, param |-> param, body |-> body, dbfail |-> dbfail]

NoBody == [key \in {} |-> JNull]

NoRequest == Request("none", 0, JNull, NoBody, FALSE)

NoResponse ==
    [status |-> 0, kind |-> "none", msg |-> "", key |-> "", id |-> 0, body |-> JNull,
     exc |-> ""]

NoCreate == [id |-> 0, body |-> NoBody]

Init ==
    /\ table = <<>>
    /\ origin = <<>>
    /\ issued = <<>>
    /\ deleted = {}
    /\ lastCreate = NoCreate
    /\ req = NoRequest
    /\ resp = NoResponse

Idle == req = NoRequest

ListAll ==
    /\ Idle
    /\ req' = Request("list", 0, JNull, NoBody, FALSE)
    /\ resp' = get_all_observations(table).resp
    /\ UNCHANGED <<table, origin, issued, deleted, lastCreate>>

GetByRoute ==
    /\ Idle
    /\ \E id \in RequestIds :
          /\ req' = Request("get_route", id, JNull, NoBody, FALSE)
          /\ resp' = get_one_observation_route(table, id).resp
    /\ UNCHANGED <<table, origin, issued, deleted, lastCreate>>

GetByQuery ==
    /\ Idle
    /\ \E param \in QueryParams :
          /\ req' = Request("get_query", 0, param, NoBody, FALSE)
          /\ resp' = get_one_observation_query(table, param).resp
    /\ UNCHANGED <<table, origin, issued, deleted, lastCreate>>

Create ==
    /\ Idle
    /\ Len(issued) < MaxCreates
    /\ \E body \in Bodies, dbfail \in BOOLEAN :
       \E r \in {observation_add_json(table, body, dbfail)} :
          /\ dbfail => r.resp.exc = "StorageError"
          /\ req' = Request("create", 0, JNull, body, dbfail)
          /\ resp' = r.resp
          /\ table' = r.table
          /\ IF r.resp.status = 201
             THEN /\ origin' = Append(origin, r.resp.id)
                  /\ issued' = Append(issued, r.resp.id)
                  /\ lastCreate' = [id |-> r.resp.id, body |-> body]
             ELSE UNCHANGED <<origin, issued, lastCreate>>
    /\ UNCHANGED deleted

Update ==
    /\ Idle
    /\ \E id \in RequestIds :
       \E body \in IF FindByID(table, id) = 0 THEN {NoBody} ELSE Bodies :
       \E dbfail \in BOOLEAN :
       \E r \in {modify_observation(table, id, body, dbfail)} :
          /\ dbfail => r.resp.exc = "StorageError"
          /\ req' = Request("update", id, JNull, body, dbfail)
          /\ resp' = r.resp
          /\ table' = r.table
          /\ lastCreate' = IF lastCreate.id = id THEN NoCreate ELSE lastCreate
    /\ UNCHANGED <<origin, issued, deleted>>

Delete ==
    /\ Idle
    /\ \E id \in RequestIds, dbfail \in BOOLEAN :
       \E r \in {delete_observation(table, id, dbfail)} :
          /\ dbfail => r.resp.exc = "StorageError"
          /\ req' = Request("delete", id, JNull, NoBody, dbfail)
          /\ resp' = r.resp
          /\ table' = r.table
          /\ IF r.resp.status = 200
             THEN /\ origin' = RemoveAt(origin, FindByID(table, id))
                  /\ deleted' = deleted \cup {id}
             ELSE UNCHANGED <<origin, deleted>>
          /\ lastCreate' = IF lastCreate.id = id THEN NoCreate ELSE lastCreate
    /\ UNCHANGED issued

\* the response is returned to the client and the next request can be taken
Return ==
    /\ ~Idle
    /\ req' = NoRequest
    /\ resp' = NoResponse
    /\ UNCHANGED <<table, origin, issued, deleted, lastCreate>>

Next ==
    \/ ListAll
    \/ GetByRoute
    \/ GetByQuery
    \/ Create
    \/ Update
    \/ Delete
    \/ Return

Spec == Init /\ [][Next]_vars

(***************************************************************************)
(* The claims.                                                             *)
(***************************************************************************)
HasKey(r, key) == key \in DOMAIN r.body

\* the text is the decimal text of an integer
IsIntegerText(jv) == jv.k = "str" /\ Len(jv.s) > 0 /\ AllDigits(jv.s)

\* the id a get or delete request names
TargetId(r) == IF r.op = "get_query" THEN TextAsInteger(r.param) ELSE r.id

\* C1: a create whose Date or Time text does not parse fails with status 400
\* and stores no record.
C1_MalformedCreateIs400 ==
    [][(/\ req'.op = "create"
        /\ HasKey(req', "Date") /\ req'.body["Date"].k = "str"
        /\ HasKey(req', "Time") /\ req'.body["Time"].k = "str"
        /\ (~ParseDate(req'.body["Date"]).ok \/ ~ParseTime(req'.body["Time"]).ok))
       => (resp'.status = 400 /\ table' = table)]_vars

\* C2: the id assigned by a create differs from every id assigned by an
\* earlier create, whatever was deleted in between.
C2_IdsNeverReused ==
    \A i, j \in 1..Len(issued) : i # j => issued[i] # issued[j]

FailsValidation(r) ==
    \/ /\ r.op = "create"
       /\ \/ ~HasKey(r, "Date")
          \/ ~ParseDate(r.body["Date"]).ok
          \/ ~HasKey(r, "Time")
          \/ ~ParseTime(r.body["Time"]).ok
    \/ /\ r.op = "update"
       /\ \/ HasKey(r, "Date") /\ ~ParseDate(r.body["Date"]).ok
          \/ HasKey(r, "Time") /\ ~ParseTime(r.body["Time"]).ok

\* C5: a create or update that fails on a missing required key or on a
\* Date/Time value that does not parse leaves the stored records as they were.
C5_NoPartialWrite ==
    [][FailsValidation(req') => table' = table]_vars

\* an update of a stored row failed on its Time after its Date, a date other
\* than the stored one, had parsed
C5_Witness ==
    /\ req.op = "update" /\ resp.kind = "unhandled"
    /\ HasKey(req, "Date") /\ ParseDate(req.body["Date"]).ok
    /\ HasKey(req, "Time") /\ ~ParseTime(req.body["Time"]).ok
    /\ FindByID(table, req.id) # 0
    /\ table[FindByID(table, req.id)]["Date"] # ParseDate(req.body["Date"]).v

\* C6: once a delete of an id returned 200, every later get of that id, by
\* path or by query, and every later delete of it returns 404.
C6_DeleteIsFinal ==
    [][(req'.op \in {"get_route", "get_query", "delete"} /\ ~req'.dbfail
           /\ TargetId(req') \in deleted)
       => resp'.status = 404]_vars

\* C7: a create whose body lacks the Date key or the Time key fails with
\* status 400 and a message that names the missing key.
C7_MissingKeyIs400 ==
    (req.op = "create" /\ (~HasKey(req, "Date") \/ ~HasKey(req, "Time")))
    => /\ resp.status = 400
       /\ resp.kind = "message" /\ resp.msg = "Missing field"
       /\ resp.key \in RequiredFields \ DOMAIN req.body

\* C8: a storage failure during a create, update or delete is answered by
\* the handler with a JSON message.
C8_StorageErrorsCaught ==
    (req.op \in {"create", "update", "delete"} /\ req.dbfail)
    => resp.kind = "message"

\* C9: for every id the two get endpoints give the same response, and the
\* query endpoint answers 404 Observation not found when its parameter is
\* missing or is not an integer.
C9_GetEndpointsAgree ==
    /\ \A id \in RequestIds :
           get_one_observation_route(table, id).resp
               = get_one_observation_query(table, JStr(IdText(id))).resp
    /\ (req.op = "get_query" /\ ~IsIntegerText(req.param)) => resp = NotFound

\* C10: every stored record has a Date and a Time, no two stored records
\* share an ObservationID, and every record carries the ObservationID it was
\* created with.
C10_RecordInvariants ==
    /\ Len(origin) = Len(table)
    /\ \A i \in 1..Len(table) :
           /\ table[i]["Date"].k = "date"
           /\ table[i]["Time"].k = "time"
           /\ RowId(table[i]) = origin[i]
           /\ \A j \in 1..Len(table) : j # i => RowId(table[j]) # RowId(table[i])

\* a second record was updated with a body that carries another record's
\* ObservationID
C10_Witness ==
    /\ req.op = "update" /\ resp.status = 200
    /\ HasKey(req, "ObservationID")
    /\ req.body["ObservationID"] # JNum(req.id)
    /\ Len(table) = 2

====
